---- MODULE Spec2Model ----
(***************************************************************************)
(* Model of plaso's PlistParser (plaso/parsers/plist.py): the generator    *)
(* PlistParser.Parse, the decoder wrapper PlistParser.GetTopLevel, the     *)
(* plugin registry built by PlistParser.__init__, and the engine that      *)
(* consumes the generator.                                                 *)
(*                                                                         *)
(* Parse is a Python generator: calling it runs nothing; each next() of    *)
(* the caller runs the body up to the next yield, to the end of the body   *)
(* (StopIteration) or to a raise.  The body is modelled statement group by *)
(* statement group; while the body runs, no caller action is enabled.      *)
(***************************************************************************)
EXTENDS Integers, Sequences, FiniteSets, TLC

(* ------------------------------ bounds --------------------------------- *)
\* most records one plugin's Process yields for one document
MaxRecords == 2
\* most Parse calls made on one parser instance
MaxParses == 2

(* ------------------------- program constants --------------------------- *)
\* plist.py:129  "if file_size > 50000000"
MaxFileSize == 50000000

\* sizes get_size() can report: both sides of both tests of plist.py:123,129
FileSizes == {-1, 0, 1, MaxFileSize, MaxFileSize + 1}

\* the plugins registered through interface.PlistPlugin, in declaration order
AvailablePlugins == <<"A", "B", "C">>
PluginNames == {AvailablePlugins[i] : i \in 1..Len(AvailablePlugins)}

\* config.parsers: absent (None) or a set of plugin names
Filters ==
  [present : {FALSE}, names : {{}}]
    \cup [present : {TRUE}, names : SUBSET PluginNames]

\* Python's None, and the values binplist.readPlist can return
None == "None"
TopLevelValues == {"{}", "[]", "{foo: bar}"}

\* the emptiness test written as "is None": an empty container passes
FalsyIsNone(v) == v = None

\* "not top_level_object" of plist.py:94 and plist.py:142
Falsy(v) == v \in {None, "{}", "[]"}

\* exceptions readPlist raises that GetTopLevel catches (plist.py:80-89),
\* and one it does not catch
CaughtDecoderErrors ==
  {"FormatError", "LookupError", "binascii.Error", "ValueError",
   "AttributeError", "OverflowError"}
DecoderErrors == CaughtDecoderErrors \cup {"IOError"}

\* what one call of binplist.readPlist does: return a value or raise
ReadPlistOutcomes ==
  [raises : {None}, value : TopLevelValues]
    \cup [raises : DecoderErrors, value : {None}]

\* what a plugin does when Process is called or its sequence is advanced
MismatchSignal == "WrongPlistPlugin"
PluginErrors == {"KeyError"}

VARIABLES
  config,          \* self._config.parsers : the plugin filter
  plugins,         \* self._plugins : registry, a sequence of plugin names
  parses,          \* number of Parse calls made so far on this parser
  pulls,           \* number of next() calls made on the current generator
  invokedEver,     \* names of the plugins whose Process was ever invoked
  pc,              \* position of the current Parse generator
  opened,          \* file_entry.GetFileObject() was called
  sizeQueries,     \* calls of file_object.get_size()
  file_size,       \* local file_size
  reads,           \* calls of binplist.readPlist(file_object)
  readResult,      \* <<what readPlist did>> once it was called, else <<>>
  closes,          \* calls of file_object.close()
  top_level_object,\* local top_level_object
  cur,             \* position of plist_plugin in self._plugins (for loop)
  status,          \* per registry position: what its plugin has done so far
  inflight,        \* <<event_object>> obtained from the plugin, not yet
                   \* yielded; <<>> when there is none
  produced,        \* records as the plugins produced them, with position
  output,          \* records the caller received, in order
  exc,             \* exception that left the generator, or None
  excMsg           \* which message it carries (tag of the raise statement)

vars == <<config, plugins, parses, pulls, invokedEver, pc, opened, sizeQueries,
          file_size, reads, readResult, closes, top_level_object, cur,
          status, inflight, produced, output, exc, excMsg>>

parserVars == <<config, plugins>>
fileVars == <<opened, sizeQueries, file_size, reads, readResult, closes>>
loopVars == <<cur, status, inflight, produced, output>>
excVars == <<exc, excMsg>>

(* ----------------------------- registry -------------------------------- *)
RECURSIVE SelectSeq2(_, _)
\* the subsequence of s whose elements are in keep, order preserved
SelectSeq2(s, keep) ==
  IF s = <<>> THEN <<>>
  ELSE IF Head(s) \in keep THEN <<Head(s)>> \o SelectSeq2(Tail(s), keep)
  ELSE SelectSeq2(Tail(s), keep)

\* plugin.GetRegisteredPlugins(interface.PlistPlugin, pre_obj, filter)
GetRegisteredPlugins(filter) ==
  IF ~filter.present THEN AvailablePlugins
  ELSE SelectSeq2(AvailablePlugins, filter.names)

\* iteration over every registered plugin class, the filter ignored
IterValuesAll == AvailablePlugins

\* plist.py:150  self._plugins.itervalues(): the plugins Parse iterates
IterValues == plugins

\* a loop step that passes over the following plugin
NextPositionSkip(i) == i + 2

\* plist.py:150  the for loop's step from the plugin at position i
NextPosition(i) == i + 1

\* PlistParser.__init__ : the registry is built once from the filter
Init ==
  /\ config \in Filters
  /\ plugins = GetRegisteredPlugins(config)
  /\ parses = 0
  /\ pulls = 0
  /\ invokedEver = {}
  /\ pc = "idle"
  /\ opened = FALSE
  /\ sizeQueries = 0
  /\ file_size = 0
  /\ reads = 0
  /\ readResult = <<>>
  /\ closes = 0
  /\ top_level_object = None
  /\ cur = 0
  /\ status = [i \in 1..Len(IterValues) |-> "pending"]
  /\ inflight = <<>>
  /\ produced = <<>>
  /\ output = <<>>
  /\ exc = None
  /\ excMsg = None

(* ------------------------------ caller --------------------------------- *)
Ended == pc \in {"done", "raised", "abandoned"}

\* Parse as a plain function: the file object is obtained and its size
\* queried at the call
CallParseEager ==
  /\ pc = "idle" \/ Ended
  /\ parses < MaxParses
  /\ parses' = parses + 1
  /\ pulls' = 0
  /\ pc' = "created"
  /\ opened' = TRUE
  /\ sizeQueries' = 1
  /\ file_size' = 0
  /\ reads' = 0
  /\ readResult' = <<>>
  /\ closes' = 0
  /\ top_level_object' = None
  /\ cur' = 0
  /\ status' = [i \in 1..Len(IterValues) |-> "pending"]
  /\ inflight' = <<>>
  /\ produced' = <<>>
  /\ output' = <<>>
  /\ exc' = None
  /\ excMsg' = None
  /\ UNCHANGED <<parserVars, invokedEver>>

\* the engine calls parser.Parse(file_entry): a generator object is made,
\* no statement of the body runs
CallParse ==
  /\ pc = "idle" \/ Ended
  /\ parses < MaxParses
  /\ parses' = parses + 1
  /\ pulls' = 0
  /\ pc' = "created"
  /\ opened' = FALSE
  /\ sizeQueries' = 0
  /\ file_size' = 0
  /\ reads' = 0
  /\ readResult' = <<>>
  /\ closes' = 0
  /\ top_level_object' = None
  /\ cur' = 0
  /\ status' = [i \in 1..Len(IterValues) |-> "pending"]
  /\ inflight' = <<>>
  /\ produced' = <<>>
  /\ output' = <<>>
  /\ exc' = None
  /\ excMsg' = None
  /\ UNCHANGED <<parserVars, invokedEver>>

\* the caller advances the generator: next(generator)
Pull ==
  /\ pc \in {"created", "suspended"}
  /\ pc' = IF pc = "created" THEN "start" ELSE "iter"
  /\ pulls' = pulls + 1
  /\ UNCHANGED <<parserVars, parses, invokedEver, fileVars, top_level_object,
                 loopVars, excVars>>

\* the caller drops the generator before exhausting it: generator.close()
\* raises GeneratorExit at the yield, which no except clause of Parse
\* catches; a generator that never started just ends
Abandon ==
  /\ pc \in {"created", "suspended"}
  /\ pc' = "abandoned"
  /\ UNCHANGED <<parserVars, parses, pulls, invokedEver, fileVars, top_level_object,
                 loopVars, excVars>>
(* --------------------------- GetTopLevel ------------------------------- *)
\* GetTopLevel without its emptiness test: an empty value is returned
GetTopLevelNoEmptyTest(r) ==
  IF r.raises = "FormatError"
    THEN [raises |-> "UnableToParseFile", msg |-> "File is not a plist file",
          value |-> None]
  ELSE IF r.raises \in {"LookupError", "binascii.Error", "ValueError",
                        "AttributeError"}
    THEN [raises |-> "UnableToParseFile", msg |-> "Unable to parse XML file",
          value |-> None]
  ELSE IF r.raises = "OverflowError"
    THEN [raises |-> "UnableToParseFile", msg |-> "Unable to parse with error",
          value |-> None]
  ELSE IF r.raises # None
    THEN [raises |-> r.raises, msg |-> None, value |-> None]
  ELSE [raises |-> None, msg |-> None, value |-> r.value]

\* GetTopLevel without the except clause for OverflowError
GetTopLevelNoOverflow(r) ==
  IF r.raises = "FormatError"
    THEN [raises |-> "UnableToParseFile", msg |-> "File is not a plist file",
          value |-> None]
  ELSE IF r.raises \in {"LookupError", "binascii.Error", "ValueError",
                        "AttributeError"}
    THEN [raises |-> "UnableToParseFile", msg |-> "Unable to parse XML file",
          value |-> None]
  ELSE IF r.raises # None
    THEN [raises |-> r.raises, msg |-> None, value |-> None]
  ELSE IF Falsy(r.value)
    THEN [raises |-> "UnableToParseFile", msg |-> "File is not a plist",
          value |-> None]
  ELSE [raises |-> None, msg |-> None, value |-> r.value]

\* PlistParser.GetTopLevel applied to what readPlist did: the exception it
\* lets out (None if it returns), the message, and the value returned
GetTopLevel(r) ==
  IF r.raises = "FormatError"
    THEN [raises |-> "UnableToParseFile", msg |-> "File is not a plist file",
          value |-> None]
  ELSE IF r.raises \in {"LookupError", "binascii.Error", "ValueError",
                        "AttributeError"}
    THEN [raises |-> "UnableToParseFile", msg |-> "Unable to parse XML file",
          value |-> None]
  ELSE IF r.raises = "OverflowError"
    THEN [raises |-> "UnableToParseFile", msg |-> "Unable to parse with error",
          value |-> None]
  ELSE IF r.raises # None
    THEN [raises |-> r.raises, msg |-> None, value |-> None]
  ELSE IF Falsy(r.value)
    THEN [raises |-> "UnableToParseFile", msg |-> "File is not a plist",
          value |-> None]
  ELSE [raises |-> None, msg |-> None, value |-> r.value]

(* ------------------------- the body of Parse --------------------------- *)
\* an exception leaves the generator
Raise(e, m) ==
  /\ pc' = "raised"
  /\ exc' = e
  /\ excMsg' = m

\* plist.py:120-121  GetFileObject(), get_size()
GetFileObject ==
  /\ pc = "start"
  /\ opened' = TRUE
  /\ sizeQueries' = sizeQueries + 1
  /\ \E s \in FileSizes : file_size' = s
  /\ pc' = "sizecheck"
  /\ UNCHANGED <<parserVars, parses, pulls, invokedEver, reads, readResult, closes,
                 top_level_object, loopVars, excVars>>

\* the tests with the ceiling itself rejected
SizeViolationCeiling(size) ==
  IF size <= 0 THEN "less equal 0"
  ELSE IF size >= MaxFileSize THEN "larger than 50 MB"
  ELSE None

\* plist.py:123,129  the two tests on file_size
SizeViolation(size) ==
  IF size <= 0 THEN "less equal 0"
  ELSE IF size > MaxFileSize THEN "larger than 50 MB"
  ELSE None

\* the size check with the raise statements forgotten: the file object is
\* closed and the parse goes on to the decoder
SizeCheckNoRaise ==
  /\ pc = "sizecheck"
  /\ closes' = IF SizeViolation(file_size) # None THEN closes + 1 ELSE closes
  /\ pc' = "decode"
  /\ UNCHANGED <<parserVars, parses, pulls, invokedEver, opened, sizeQueries,
                 file_size, reads, readResult, top_level_object, loopVars,
                 excVars>>

\* the size check with the close of the oversize branch forgotten
SizeCheckNoClose ==
  /\ pc = "sizecheck"
  /\ IF SizeViolation(file_size) # None
       THEN /\ closes' = IF file_size <= 0 THEN closes + 1 ELSE closes
            /\ Raise("UnableToParseFile", SizeViolation(file_size))
       ELSE /\ pc' = "decode"
            /\ UNCHANGED <<closes, excVars>>
  /\ UNCHANGED <<parserVars, parses, pulls, invokedEver, opened, sizeQueries,
                 file_size, reads, readResult, top_level_object, loopVars>>

\* plist.py:123-133  close and raise on a size violation
SizeCheck ==
  /\ pc = "sizecheck"
  /\ IF SizeViolation(file_size) # None
       THEN /\ closes' = closes + 1
            /\ Raise("UnableToParseFile", SizeViolation(file_size))
       ELSE /\ pc' = "decode"
            /\ UNCHANGED <<closes, excVars>>
  /\ UNCHANGED <<parserVars, parses, pulls, invokedEver, opened, sizeQueries,
                 file_size, reads, readResult, top_level_object, loopVars>>

\* the except clause of the decode step with its raise forgotten: the
\* file object is closed and the parse goes on with top_level_object None
DecodeNoReraise ==
  /\ pc = "decode"
  /\ reads' = reads + 1
  /\ \E r \in ReadPlistOutcomes :
       LET g == GetTopLevel(r) IN
       /\ readResult' = <<r>>
       /\ IF g.raises = "UnableToParseFile"
            THEN /\ closes' = closes + 1
                 /\ pc' = "emptycheck"
                 /\ UNCHANGED <<top_level_object, excVars>>
          ELSE IF g.raises # None
            THEN /\ Raise(g.raises, g.msg)
                 /\ UNCHANGED <<closes, top_level_object>>
          ELSE /\ top_level_object' = g.value
               /\ pc' = "emptycheck"
               /\ UNCHANGED <<closes, excVars>>
  /\ UNCHANGED <<parserVars, parses, pulls, invokedEver, opened, sizeQueries,
                 file_size, loopVars>>

\* plist.py:135-140  GetTopLevel under try/except UnableToParseFile
Decode ==
  /\ pc = "decode"
  /\ reads' = reads + 1
  /\ \E r \in ReadPlistOutcomes :
       LET g == GetTopLevel(r) IN
       /\ readResult' = <<r>>
       /\ IF g.raises = "UnableToParseFile"
            THEN /\ closes' = closes + 1
                 /\ Raise(g.raises, g.msg)
                 /\ UNCHANGED top_level_object
          ELSE IF g.raises # None
            THEN /\ Raise(g.raises, g.msg)
                 /\ UNCHANGED <<closes, top_level_object>>
          ELSE /\ top_level_object' = g.value
               /\ pc' = "emptycheck"
               /\ UNCHANGED <<closes, excVars>>
  /\ UNCHANGED <<parserVars, parses, pulls, invokedEver, opened, sizeQueries,
                 file_size, loopVars>>

\* the file object closed as soon as the document is decoded, before the
\* plugins run
EmptyCheckCloseEarly ==
  /\ pc = "emptycheck"
  /\ closes' = closes + 1
  /\ IF Falsy(top_level_object)
       THEN /\ Raise("UnableToParseFile", "unable to parse, skipping")
            /\ UNCHANGED cur
       ELSE /\ pc' = "loop"
            /\ cur' = 1
            /\ UNCHANGED excVars
  /\ UNCHANGED <<parserVars, parses, pulls, invokedEver, opened, sizeQueries,
                 file_size, reads, readResult, top_level_object, status,
                 inflight, produced, output>>

\* plist.py:142-148  the second emptiness test, then the basename
EmptyCheck ==
  /\ pc = "emptycheck"
  /\ IF Falsy(top_level_object)
       THEN /\ closes' = closes + 1
            /\ Raise("UnableToParseFile", "unable to parse, skipping")
            /\ UNCHANGED cur
       ELSE /\ pc' = "loop"
            /\ cur' = 1
            /\ UNCHANGED <<closes, excVars>>
  /\ UNCHANGED <<parserVars, parses, pulls, invokedEver, opened, sizeQueries,
                 file_size, reads, readResult, top_level_object, status,
                 inflight, produced, output>>

\* an except clause that catches nothing: the signal leaves the generator
CaughtNothing(o) == FALSE

\* plist.py:155  except errors.WrongPlistPlugin
Caught(o) == o = MismatchSignal

\* records position i has produced so far in this parse
RecordsOf(i) == Cardinality({k \in 1..Len(produced) : produced[k].pos = i})

\* the Process call with every exception contained per plugin: a failed
\* plugin is passed over and the loop goes on
CallProcessContained ==
  /\ pc = "loop"
  /\ cur <= Len(IterValues)
  /\ invokedEver' = invokedEver \cup {IterValues[cur]}
  /\ \E o \in {"sequence", MismatchSignal} \cup PluginErrors :
       IF o = "sequence"
         THEN /\ status' = [status EXCEPT ![cur] = "active"]
              /\ pc' = "iter"
              /\ UNCHANGED <<cur, excVars>>
       ELSE /\ status' = [status EXCEPT ![cur] =
                            IF o = MismatchSignal THEN "mismatch" ELSE "failed"]
            /\ cur' = NextPosition(cur)
            /\ pc' = "loop"
            /\ UNCHANGED excVars
  /\ UNCHANGED <<parserVars, parses, pulls, fileVars, top_level_object,
                 inflight, produced, output>>

\* the for loop of plist.py:150 takes the plugin at position cur and
\* plist.py:152 calls its Process, which returns a sequence or raises
CallProcess ==
  /\ pc = "loop"
  /\ cur <= Len(IterValues)
  /\ invokedEver' = invokedEver \cup {IterValues[cur]}
  /\ \E o \in {"sequence", MismatchSignal} \cup PluginErrors :
       IF o = "sequence"
         THEN /\ status' = [status EXCEPT ![cur] = "active"]
              /\ pc' = "iter"
              /\ UNCHANGED <<cur, excVars>>
       ELSE IF Caught(o)
         THEN \* plist.py:155-157  logged, next plugin
              /\ status' = [status EXCEPT ![cur] = "mismatch"]
              /\ cur' = NextPosition(cur)
              /\ pc' = "loop"
              /\ UNCHANGED excVars
       ELSE /\ status' = [status EXCEPT ![cur] = "failed"]
            /\ Raise(o, None)
            /\ UNCHANGED cur
  /\ UNCHANGED <<parserVars, parses, pulls, fileVars, top_level_object, inflight,
                 produced, output>>

\* the record the plugin at position i produces as its k-th
PluginRecord(i, k) ==
  [event_identifier |-> k, path |-> IterValues[i], plugin |-> "unset"]

\* a plugin's records held back until it ends: a mismatch takes back the
\* records the plugin had yielded
AdvancePluginRetract ==
  /\ pc = "iter"
  /\ \E o \in {"record", "StopIteration", MismatchSignal} \cup PluginErrors :
       IF o = "record"
         THEN /\ RecordsOf(cur) < MaxRecords
              /\ inflight' = <<PluginRecord(cur, RecordsOf(cur) + 1)>>
              /\ produced' = Append(produced,
                     [pos |-> cur,
                      rec |-> PluginRecord(cur, RecordsOf(cur) + 1)])
              /\ pc' = "stamp"
              /\ UNCHANGED <<cur, status, output, excVars>>
       ELSE IF o = "StopIteration"
         THEN /\ status' = [status EXCEPT ![cur] = "exhausted"]
              /\ cur' = NextPosition(cur)
              /\ pc' = "loop"
              /\ UNCHANGED <<inflight, produced, output, excVars>>
       ELSE IF Caught(o)
         THEN /\ status' = [status EXCEPT ![cur] = "mismatch"]
              /\ cur' = NextPosition(cur)
              /\ pc' = "loop"
              /\ output' = SelectSeq(output,
                                     LAMBDA r : r.plugin # IterValues[cur])
              /\ UNCHANGED <<inflight, produced, excVars>>
       ELSE /\ status' = [status EXCEPT ![cur] = "failed"]
            /\ Raise(o, None)
            /\ UNCHANGED <<cur, inflight, produced, output>>
  /\ UNCHANGED <<parserVars, parses, pulls, invokedEver, fileVars,
                 top_level_object>>

\* plist.py:152  the inner for loop advances the plugin's sequence
AdvancePlugin ==
  /\ pc = "iter"
  /\ \E o \in {"record", "StopIteration", MismatchSignal} \cup PluginErrors :
       IF o = "record"
         THEN /\ RecordsOf(cur) < MaxRecords
              /\ inflight' = <<PluginRecord(cur, RecordsOf(cur) + 1)>>
              /\ produced' = Append(produced,
                     [pos |-> cur, rec |-> PluginRecord(cur, RecordsOf(cur) + 1)])
              /\ pc' = "stamp"
              /\ UNCHANGED <<cur, status, excVars>>
       ELSE IF o = "StopIteration"
         THEN /\ status' = [status EXCEPT ![cur] = "exhausted"]
              /\ cur' = NextPosition(cur)
              /\ pc' = "loop"
              /\ UNCHANGED <<inflight, produced, excVars>>
       ELSE IF Caught(o)
         THEN /\ status' = [status EXCEPT ![cur] = "mismatch"]
              /\ cur' = NextPosition(cur)
              /\ pc' = "loop"
              /\ UNCHANGED <<inflight, produced, excVars>>
       ELSE /\ status' = [status EXCEPT ![cur] = "failed"]
            /\ Raise(o, None)
            /\ UNCHANGED <<cur, inflight, produced>>
  /\ UNCHANGED <<parserVars, parses, pulls, invokedEver, fileVars, top_level_object,
                 output>>

\* the record stamped with the parser's own NAME instead of the plugin's
StampParserName(event_object, i) == [event_object EXCEPT !.plugin = "plist"]

\* plist.py:153  event_object.plugin = plist_plugin.plugin_name
Stamp(event_object, i) == [event_object EXCEPT !.plugin = IterValues[i]]

\* the record collected and the plugin advanced again at once, without
\* waiting for the caller
YieldEventNoSuspend ==
  /\ pc = "stamp"
  /\ output' = Append(output, Stamp(inflight[1], cur))
  /\ inflight' = <<>>
  /\ pc' = "iter"
  /\ UNCHANGED <<parserVars, parses, pulls, invokedEver, fileVars,
                 top_level_object, cur, status, produced, excVars>>

\* plist.py:153-154  stamp the record and yield it to the caller
YieldEvent ==
  /\ pc = "stamp"
  /\ output' = Append(output, Stamp(inflight[1], cur))
  /\ inflight' = <<>>
  /\ pc' = "suspended"
  /\ UNCHANGED <<parserVars, parses, pulls, invokedEver, fileVars, top_level_object,
                 cur, status, produced, excVars>>

\* the end of the generator with the final close forgotten
FinalCloseForgotten ==
  /\ pc = "loop"
  /\ cur > Len(IterValues)
  /\ pc' = "done"
  /\ UNCHANGED <<parserVars, parses, pulls, invokedEver, fileVars, top_level_object,
                 loopVars, excVars>>

\* plist.py:159  the for loop is over: close, and the generator ends
FinalClose ==
  /\ pc = "loop"
  /\ cur > Len(IterValues)
  /\ closes' = closes + 1
  /\ pc' = "done"
  /\ UNCHANGED <<parserVars, parses, pulls, invokedEver, opened, sizeQueries,
                 file_size, reads, readResult, top_level_object, loopVars,
                 excVars>>

Next ==
  \/ CallParse
  \/ Pull
  \/ Abandon
  \/ GetFileObject
  \/ SizeCheck
  \/ Decode
  \/ EmptyCheck
  \/ CallProcess
  \/ AdvancePlugin
  \/ YieldEvent
  \/ FinalClose

Spec == Init /\ [][Next]_vars

TypeOK ==
  /\ config \in Filters
  /\ parses \in 0..MaxParses
  /\ invokedEver \subseteq PluginNames
  /\ pc \in {"idle", "created", "start", "sizecheck", "decode", "emptycheck",
             "loop", "iter", "stamp", "suspended", "done", "raised",
             "abandoned"}
  /\ closes \in 0..2
  /\ reads \in 0..1
  /\ cur \in 0..(Len(IterValues) + 1)
(* ------------------------------ claims --------------------------------- *)
\* the size was queried and the size check has been passed or has raised
SizeChecked == sizeQueries > 0 /\ pc # "sizecheck"
SizeInRange == 1 <= file_size /\ file_size <= MaxFileSize

\* messages of the raise statements, by sub-kind
SizeMessages == {"less equal 0", "larger than 50 MB"}
EmptyMessages == {"File is not a plist", "unable to parse, skipping"}

\* C1: whenever a Parse call has ended by a failure or by exhaustion,
\* close was invoked on the file object exactly once.
C1_CloseExactlyOnceOnEveryEnd ==
  pc \in {"done", "raised"} => closes = 1

\* C2: a size <= 0 or > 50,000,000 makes Parse fail with UnableToParseFile
\* of the size-violation kind, with close invoked exactly once by then.
C2_SizeViolationFailsClosedOnce ==
  (SizeChecked /\ (file_size <= 0 \/ file_size > 50000000)) =>
    /\ pc = "raised"
    /\ exc = "UnableToParseFile"
    /\ excMsg \in SizeMessages
    /\ closes = 1

C2_Witness ==
  /\ pc = "raised"
  /\ file_size > 50000000
  /\ exc = "UnableToParseFile"
  /\ closes = 1

\* C3: the decoder is invoked if and only if 1 <= size <= 50,000,000, and
\* only after the size check; for any other size it is never invoked and
\* nothing is read from the stream.
C3_DecoderIffSizeInRange ==
  /\ reads > 0 => (SizeChecked /\ 1 <= file_size /\ file_size <= 50000000)
  /\ (SizeChecked /\ 1 <= file_size /\ file_size <= 50000000) =>
       (pc = "decode" \/ reads = 1)
  /\ (SizeChecked /\ ~(1 <= file_size /\ file_size <= 50000000)) =>
       (reads = 0 /\ readResult = <<>>)

C3_Witness ==
  /\ reads = 1
  /\ file_size = 50000000
  /\ readResult # <<>>

\* readPlist returned (did not raise) an empty top-level value
DecodedEmpty ==
  /\ readResult # <<>>
  /\ readResult[1].raises = None
  /\ readResult[1].value \in {"{}", "[]"}

\* C4: when the decoder returns an empty top-level value, Parse fails with
\* UnableToParseFile raised by an emptiness test, no plugin's Process is
\* invoked, and close is invoked exactly once.
C4_EmptyDocumentFailsClosedOnce ==
  DecodedEmpty =>
    /\ pc = "raised"
    /\ exc = "UnableToParseFile"
    /\ excMsg \in EmptyMessages
    /\ closes = 1
    /\ \A i \in DOMAIN status : status[i] = "pending"
    /\ produced = <<>> /\ output = <<>>

C4_Witness ==
  /\ DecodedEmpty
  /\ readResult[1].value = "{}"
  /\ pc = "raised"
  /\ closes = 1
  /\ Len(plugins) > 0

\* readPlist raised one of the three failure kinds GetTopLevel re-maps
DecoderFailed ==
  /\ readResult # <<>>
  /\ readResult[1].raises \in
       {"FormatError", "LookupError", "binascii.Error", "ValueError",
        "AttributeError", "OverflowError"}

\* C5: when the decoder fails as not-a-container, malformed or overflow,
\* Parse closes the file object exactly once and the failure the caller
\* sees is UnableToParseFile.
C5_DecoderFailureClosedOnce ==
  DecoderFailed =>
    /\ pc = "raised"
    /\ exc = "UnableToParseFile"
    /\ excMsg \notin SizeMessages \cup EmptyMessages \cup {None}
    /\ closes = 1

C5_Witness ==
  /\ DecoderFailed
  /\ readResult[1].raises = "OverflowError"
  /\ pc = "raised"
  /\ exc = "UnableToParseFile"
\* C6: a mismatch signalled by a plugin never leaves the generator and
\* never stops the dispatch: the loop goes on past the plugin, a later
\* plugin stays uninvoked only while the loop has not reached it yet, or
\* because the caller stopped pulling or another plugin failed, and every
\* record a later plugin produces is delivered.
C6_MismatchNeverAborts ==
  /\ exc # "WrongPlistPlugin"
  /\ \A i \in DOMAIN status : status[i] = "mismatch" =>
       /\ cur > i
       /\ \A j \in DOMAIN status : (j > i /\ status[j] = "pending") =>
            /\ cur \in (i + 1)..j
            /\ pc \in {"loop", "iter", "stamp", "suspended", "abandoned",
                       "raised"}
            /\ pc = "raised" => (cur < j /\ status[cur] = "failed")
       /\ \A k \in 1..Len(produced) : produced[k].pos > i =>
            \/ k = Len(produced) /\ pc = "stamp"
            \/ /\ k <= Len(output)
               /\ output[k].event_identifier = produced[k].rec.event_identifier
               /\ output[k].path = produced[k].rec.path
  /\ pc = "done" =>
       \A i \in DOMAIN status : status[i] \in {"exhausted", "mismatch"}

C6_Witness ==
  /\ pc = "done"
  /\ Len(status) = 3
  /\ status[1] = "mismatch"
  /\ status[2] = "mismatch"
  /\ status[3] = "exhausted"
  /\ Len(output) = 2
  /\ exc = None

\* the loop went through the whole registry and every plugin signalled a
\* mismatch in place of a sequence of records
AllMismatched ==
  /\ cur > Len(status)
  /\ \A i \in DOMAIN status : status[i] = "mismatch" /\ RecordsOf(i) = 0

\* C7: when every plugin of the registry signals a mismatch for a valid
\* non-empty document, no failure is raised, the caller receives no
\* record, and the file object is closed exactly once, at exhaustion.
C7_AllMismatchYieldsNothing ==
  AllMismatched =>
    /\ pc \in {"loop", "done"}
    /\ exc = None
    /\ output = <<>>
    /\ pc = "loop" => closes = 0
    /\ pc = "done" => closes = 1

C7_Witness ==
  /\ AllMismatched
  /\ Len(status) = 3
  /\ pc = "done"
  /\ closes = 1
  /\ output = <<>>

\* C8: every record the caller received is the record its plugin produced
\* with the plugin field set to that plugin's name and nothing else
\* changed; at most the one record being stamped is not yet delivered.
C8_RecordsCarryProducingPlugin ==
  /\ Len(output) <= Len(produced)
  /\ Len(produced) <= Len(output) + 1
  /\ Len(produced) = Len(output) + 1 <=> pc = "stamp"
  /\ \A k \in 1..Len(output) :
       /\ output[k].plugin = plugins[produced[k].pos]
       /\ output[k] = [produced[k].rec EXCEPT !.plugin = plugins[produced[k].pos]]

C8_Witness ==
  /\ Len(output) = 3
  /\ output[1].plugin = "A"
  /\ output[3].plugin = "C"
  /\ pc = "suspended"

\* what the plugin at position i contributes to the output
HandlerOutput(i) ==
  [k \in 1..RecordsOf(i) |->
     [event_identifier |-> k, path |-> plugins[i], plugin |-> plugins[i]]]

RECURSIVE Concatenation(_)
\* the outputs of positions 1..n, one after the other
Concatenation(n) ==
  IF n = 0 THEN <<>> ELSE Concatenation(n - 1) \o HandlerOutput(n)

\* C9: the output is the concatenation, in registry order, of the plugins'
\* records, and a plugin's Process is invoked only once every earlier
\* plugin is exhausted or ended by a mismatch.
C9_OutputInRegistryOrder ==
  /\ pc # "stamp" => output = Concatenation(Len(status))
  /\ \A k \in 1..Len(produced) : \A l \in 1..Len(produced) :
       k < l => produced[k].pos <= produced[l].pos
  /\ \A j \in DOMAIN status : status[j] # "pending" =>
       \A i \in 1..(j - 1) : status[i] \in {"exhausted", "mismatch"}
  /\ pc = "done" =>
       \A i \in DOMAIN status : status[i] \in {"exhausted", "mismatch"}

C9_Witness ==
  /\ pc = "done"
  /\ Len(output) = 4
  /\ output[2].plugin = "A"
  /\ output[3].plugin = "B"
  /\ status[1] = "exhausted"
  /\ status[2] = "exhausted"

\* C10: Process is invoked only on plugins of the registry built at
\* construction from the filter; with a filter naming only A, B's Process
\* is never invoked, over any number of parses.
C10_OnlyRegisteredPluginsInvoked ==
  /\ plugins = GetRegisteredPlugins(config)
  /\ invokedEver \subseteq {plugins[i] : i \in 1..Len(plugins)}
  /\ config.present => invokedEver \subseteq config.names
  /\ config = [present |-> TRUE, names |-> {"A"}] => "B" \notin invokedEver

C10_Witness ==
  /\ config = [present |-> TRUE, names |-> {"A"}]
  /\ parses = 2
  /\ pc = "done"
  /\ invokedEver = {"A"}
\* the decoder returned a non-empty document and the plugins are being run
Dispatching == cur >= 1

\* C11: once dispatch has begun, close is not invoked while some plugin is
\* not yet exhausted or ended by a mismatch, a record being handed to the
\* caller included; a size, decode or empty failure reaches the caller
\* with close already invoked.
C11_CloseOnlyAfterExhaustion ==
  /\ (Dispatching /\ \E i \in DOMAIN status :
                       status[i] \notin {"exhausted", "mismatch"}) =>
       closes = 0
  /\ pc \in {"iter", "stamp", "suspended"} => closes = 0
  /\ (Dispatching /\ closes > 0) => (pc = "done" /\ closes = 1)
  /\ (pc = "raised" /\ ~Dispatching /\ exc = "UnableToParseFile") =>
       closes = 1

C11_Witness ==
  /\ pc = "suspended"
  /\ Len(output) = 2
  /\ status[1] = "exhausted"
  /\ status[2] = "active"
  /\ closes = 0

\* C12: records are obtained from the plugins only as the caller pulls:
\* at most one record obtained per pull, at most one obtained record not
\* yet delivered, none while the generator is not running, and no plugin
\* after the current one has had Process invoked.
C12_PullBased ==
  /\ Len(produced) <= pulls
  /\ Len(produced) <= Len(output) + 1
  /\ Len(output) <= Len(produced)
  /\ pc \in {"created", "suspended", "done", "raised", "abandoned"} =>
       (Len(produced) = Len(output) /\ inflight = <<>>)
  /\ pc = "suspended" => Len(output) = pulls
  /\ \A j \in DOMAIN status : j > cur => status[j] = "pending"

C12_Witness ==
  /\ pc = "stamp"
  /\ pulls = 2
  /\ Len(produced) = 2
  /\ Len(output) = 1
  /\ cur = 1
  /\ Len(status) = 3
\* the stage of the parse a position of the generator belongs to
StageRank(p) ==
  CASE p \in {"idle", "created", "start"} -> 0
    [] p = "sizecheck" -> 1
    [] p = "decode" -> 2
    [] p = "emptycheck" -> 3
    [] p \in {"loop", "iter", "stamp", "suspended"} -> 4
    [] p = "done" -> 5
    [] p \in {"raised", "abandoned"} -> 6

\* what holds of the stages in every state of one parse
StageInvariant ==
  /\ sizeQueries <= 1 /\ reads <= 1 /\ closes <= 1
  /\ reads = 1 => (sizeQueries = 1 /\ SizeInRange /\ StageRank(pc) >= 3)
  /\ ((\E i \in DOMAIN status : status[i] # "pending")
        \/ produced # <<>> \/ output # <<>>) =>
       /\ readResult # <<>>
       /\ readResult[1].raises = None
       /\ readResult[1].value \notin {None, "{}", "[]"}
       /\ top_level_object = readResult[1].value
  /\ (pc = "raised" /\ ~Dispatching) =>
       /\ produced = <<>> /\ output = <<>>
       /\ \A i \in DOMAIN status : status[i] = "pending"
  /\ pc = "done" => (reads = 1 /\ Dispatching)

\* what holds of every step of one parse
StageStep ==
  parses' = parses =>
    /\ StageRank(pc') >= StageRank(pc)
    /\ StageRank(pc') > StageRank(pc) + 1 => pc' \in {"raised", "abandoned"}
    /\ sizeQueries' # sizeQueries => (StageRank(pc) = 0 /\ closes = 0)
    /\ reads' # reads => (pc = "decode" /\ reads = 0 /\ closes = 0)
    /\ (status' # status \/ produced' # produced \/ output' # output) =>
         (StageRank(pc) = 4 /\ closes = 0)
    /\ closes' # closes => pc' \in {"done", "raised"}

\* C13: a parse goes through size query, size check, decode, dispatch and
\* close in that order without skipping or repeating one: the decoder is
\* invoked at most once and after the size check passed, plugins run and
\* records appear only after a non-empty document was decoded, a parse
\* failing before dispatch has no record, and nothing is decoded or
\* dispatched after close.
C13_StagesInOrder == []StageInvariant /\ [][StageStep]_vars

C13_Witness ==
  /\ pc = "done"
  /\ sizeQueries = 1
  /\ reads = 1
  /\ closes = 1
  /\ Len(output) = 1
  /\ Len(status) = 1
\* some plugin raised an exception other than the mismatch signal
SomePluginFailed == \E i \in DOMAIN status : status[i] = "failed"

\* what holds once a plugin has failed
FailureInvariant ==
  \A i \in DOMAIN status : status[i] = "failed" =>
    /\ pc = "raised"
    /\ exc \in PluginErrors
    /\ cur = i
    /\ \A j \in DOMAIN status : j > i => status[j] = "pending"
    /\ \A j \in DOMAIN status : j < i => status[j] \in {"exhausted", "mismatch"}
    /\ Len(output) = Len(produced)
    /\ \A k \in 1..Len(output) :
         /\ output[k].event_identifier = produced[k].rec.event_identifier
         /\ output[k].plugin = plugins[produced[k].pos]

\* within one parse the output only grows, and after a plugin failed
\* nothing is invoked or delivered any more
FailureStep ==
  parses' = parses =>
    /\ Len(output') >= Len(output)
    /\ \A k \in 1..Len(output) : output'[k] = output[k]
    /\ SomePluginFailed => (status' = status /\ output' = output)

\* C14: an exception other than the mismatch signal raised by a plugin
\* reaches the caller, no plugin later in the registry is invoked in that
\* parse, and the records delivered before stay delivered.
C14_PluginFailureAborts == []FailureInvariant /\ [][FailureStep]_vars

C14_Witness ==
  /\ Len(status) = 3
  /\ status[1] = "exhausted"
  /\ status[2] = "failed"
  /\ status[3] = "pending"
  /\ Len(output) = 2
  /\ pc = "raised"
  /\ exc = "KeyError"

\* within one parse, once close was invoked the file object is not used
FileStep ==
  (parses' = parses /\ closes > 0) =>
    /\ closes' = closes
    /\ sizeQueries' = sizeQueries
    /\ reads' = reads
    /\ readResult' = readResult

\* C15: in every execution, abandoned ones and ones with an unexpected
\* exception included, close is invoked at most once and neither the size
\* query nor a read follows it.
C15_CloseAtMostOnceNoUseAfter ==
  /\ [](closes <= 1)
  /\ [](closes = 1 => pc \in {"done", "raised"})
  /\ [](pc = "abandoned" => closes = 0)
  /\ []((pc = "raised" /\ exc # "UnableToParseFile") => closes = 0)
  /\ [][FileStep]_vars

C15_Witness ==
  /\ pc = "abandoned"
  /\ Len(output) = 1
  /\ reads = 1
  /\ closes = 0
\* C16: when a plugin yields k >= 1 records and then signals a mismatch,
\* its k records stay in the output with its attribution, the signal does
\* not reach the caller, and the loop goes on with the next plugin.
C16_MismatchKeepsEarlierRecords ==
  \A i \in DOMAIN status : (status[i] = "mismatch" /\ RecordsOf(i) >= 1) =>
    /\ \A k \in 1..Len(produced) : produced[k].pos = i =>
         /\ k <= Len(output)
         /\ output[k].plugin = plugins[i]
         /\ output[k].event_identifier = produced[k].rec.event_identifier
    /\ Cardinality({k \in 1..Len(output) : output[k].plugin = plugins[i]})
         = RecordsOf(i)
    /\ exc # "WrongPlistPlugin"
    /\ cur > i
    /\ (i < Len(status) /\ status[i + 1] = "pending") =>
         (pc = "loop" /\ cur = i + 1)
    /\ (i = Len(status) /\ pc # "loop") => (pc = "done" /\ exc = None)

C16_Witness ==
  /\ Len(status) = 2
  /\ status[1] = "mismatch"
  /\ RecordsOf(1) = 2
  /\ status[2] = "exhausted"
  /\ RecordsOf(2) = 1
  /\ Len(output) = 3
  /\ pc = "done"

\* C17: calling Parse runs nothing: until the first pull the file object
\* is not obtained, size-queried, read or closed and nothing is raised; a
\* size, decode or empty failure is raised at the first pull; a generator
\* never advanced never opens nor closes a file object.
C17_LazyUntilFirstPull ==
  /\ pulls = 0 =>
       /\ pc \in {"idle", "created", "abandoned"}
       /\ ~opened
       /\ sizeQueries = 0
       /\ reads = 0
       /\ closes = 0
       /\ exc = None
  /\ pc = "created" => (pulls = 0 /\ ~opened /\ closes = 0)
  /\ (pc = "raised" /\ ~Dispatching) => pulls = 1
  /\ opened => pulls >= 1

C17_Witness ==
  /\ pc = "abandoned"
  /\ parses = 2
  /\ pulls = 0
  /\ ~opened
  /\ closes = 0

\* C18: GetTopLevel never returns an empty value: it returns a non-empty
\* document or raises UnableToParseFile, so the empty branch of Parse is
\* never taken and an empty document is handled by the except clause of
\* the decode step.
C18_EmptyBranchUnreachable ==
  /\ pc = "emptycheck" => top_level_object \notin {None, "{}", "[]"}
  /\ top_level_object \notin {"{}", "[]"}
  /\ excMsg # "unable to parse, skipping"
  /\ DecodedEmpty =>
       /\ pc = "raised"
       /\ exc = "UnableToParseFile"
       /\ excMsg = "File is not a plist"
       /\ top_level_object = None
       /\ closes = 1

C18_Witness ==
  /\ DecodedEmpty
  /\ readResult[1].value = "[]"
  /\ pc = "raised"
  /\ excMsg = "File is not a plist"
====
